---- MODULE Spec2Model ----
(***************************************************************************)
(* Model of server/ns3/nr-simulation.cc: the flow aggregator               *)
(* (ThroughputMonitor), the fallback estimate in main and the order in     *)
(* which main runs them.                                                   *)
(*                                                                         *)
(* A C++ double is modelled as an extended rational [n, d]: d > 0 and      *)
(* gcd(n, d) = 1 for a finite value, d = 0 for +infinity (n = 1),          *)
(* -infinity (n = -1) and NaN (n = 0).  Rounding of finite results is not  *)
(* modelled, except where a sum is absorbed entirely (OnePlusPow10).       *)
(* Units: gBandwidth in Hz, gFrequency in MHz (3.5e9 Hz does not fit the   *)
(* model checker's integers), times in seconds, throughput in bit/s.       *)
(***************************************************************************)
EXTENDS Integers, Sequences, FiniteSets

\* ------------------------------------------------------------- bounds
\* The largest number of flows the flow monitor reports in one snapshot.
MaxFlows == 2

\* ------------------------------------------------- double arithmetic
Abs(x) == IF x < 0 THEN -x ELSE x

Sign(x) == IF x < 0 THEN -1 ELSE IF x > 0 THEN 1 ELSE 0

RECURSIVE Gcd(_, _)
Gcd(a, b) == IF b = 0 THEN a ELSE Gcd(b, a % b)

\* The double n/d: an integer division by zero is +-infinity or NaN.
Dbl(n, d) ==
  IF d = 0 THEN [n |-> Sign(n), d |-> 0]
  ELSE IF n = 0 THEN [n |-> 0, d |-> 1]
  ELSE LET g == Gcd(Abs(n), Abs(d))
           s == Sign(d)
       IN  [n |-> s * (n \div g), d |-> s * (d \div g)]

\* An integer (uint64_t, int) converted to double.
ToDbl(i) == [n |-> i, d |-> 1]

IsFinite(a) == a.d # 0

\* a * b
DMul(a, b) ==
  IF a.d = 0 \/ b.d = 0 THEN [n |-> Sign(a.n) * Sign(b.n), d |-> 0]
  ELSE LET g1 == Gcd(Abs(a.n), b.d)
           g2 == Gcd(Abs(b.n), a.d)
       IN  Dbl((a.n \div g1) * (b.n \div g2), (a.d \div g2) * (b.d \div g1))

\* 1 / b; 1 / 0.0 is +infinity, 1 / infinity is 0, 1 / NaN is NaN.
DRecip(b) ==
  IF b.d = 0 THEN (IF b.n = 0 THEN b ELSE [n |-> 0, d |-> 1])
  ELSE IF b.n < 0 THEN [n |-> -b.d, d |-> -b.n]
  ELSE [n |-> b.d, d |-> b.n]

\* a / b
DDiv(a, b) == DMul(a, DRecip(b))

\* a + b
DAdd(a, b) ==
  IF a.d = 0 /\ b.d = 0 THEN (IF a.n = b.n THEN a ELSE [n |-> 0, d |-> 0])
  ELSE IF a.d = 0 THEN a
  ELSE IF b.d = 0 THEN b
  ELSE LET g == Gcd(a.d, b.d)
       IN  Dbl(a.n * (b.d \div g) + b.n * (a.d \div g), (a.d \div g) * b.d)

\* a - b
DSub(a, b) == DAdd(a, [n |-> -b.n, d |-> b.d])

\* a <= 0 (false for NaN)
DLeZero(a) == a.n < 0 \/ (a.n = 0 /\ a.d # 0)

Zero == ToDbl(0)

\* ------------------------------------------------------ the program
VARIABLES
  gFrequency,   \* carrier frequency, MHz
  gBandwidth,   \* system bandwidth, Hz
  gDuplexMode,  \* "TDD" or "FDD"
  gTxPower,     \* transmit power, dBm
  gThroughput,  \* global metric, bit/s
  gLatency,     \* global metric, s
  stats,        \* the flow statistics the last ThroughputMonitor call read
  pc,           \* where main is
  written,      \* what WriteResultsToJson was given, <<>> before the call
  events,       \* history: the calls made so far, in order
  latBefore,    \* history: gLatency when the last ThroughputMonitor call began
  thrBefore,    \* history: gThroughput when the last ThroughputMonitor call began
  latHist,      \* history: every per-flow latency that updated gLatency
  updated,      \* history: the flows that updated gLatency in the last call
  divByZero,    \* history: the last call divided by a zero elapsed time
  aggThroughput, \* history: gThroughput after the final ThroughputMonitor call
  aggLatency     \* history: gLatency after the final ThroughputMonitor call

vars == <<gFrequency, gBandwidth, gDuplexMode, gTxPower, gThroughput, gLatency,
          stats, pc, written, events, latBefore, thrBefore, latHist, updated,
          divByZero, aggThroughput, aggLatency>>

config == <<gFrequency, gBandwidth, gDuplexMode, gTxPower>>

\* --------------------------------------------------------- the inputs
\* One FlowMonitor::FlowStats record.
Flow(bytes, packets, delay, first, last) ==
  [rxBytes |-> bytes, rxPackets |-> packets, delaySum |-> delay,
   timeFirstTxPacket |-> first, timeLastRxPacket |-> last]

\* The records a snapshot is drawn from: 150000 bytes in 1 s; 3000 bytes in
\* 2 s; a packet received at the instant it was sent; packets counted with no
\* bytes; bytes counted with no packets.  A snapshot may also hold no flow.
FlowRecords ==
  { Flow(150000, 100, Dbl(1, 2), Zero, ToDbl(1)),
    Flow(3000, 2, Dbl(3, 100), Zero, ToDbl(2)),
    Flow(1500, 1, Zero, ToDbl(1), ToDbl(1)),
    Flow(0, 2, Dbl(1, 100), Zero, ToDbl(1)),
    Flow(1500, 0, Zero, Zero, ToDbl(1)) }

\* A snapshot: the std::map from FlowId 1..k to its record, in key order.
Snapshots == UNION { [1..k -> FlowRecords] : k \in 0..MaxFlows }

\* The command lines: <<frequency (MHz), bandwidth (Hz), duplexMode,
\* transmitPower (dBm)>>.  The first is the defaults; the next seven vary the
\* four parameters two by two; the last has 0 dBm, where snr is 0.  The powers
\* are multiples of 20, so that snr / 10 is an integer (see OnePlusPow10).
Configurations ==
  { <<3500, 20000000, "TDD", 20>>,
    <<3500, 20000000, "FDD", -320>>,
    <<3500, 5000000, "TDD", -320>>,
    <<3500, 5000000, "FDD", 20>>,
    <<28000, 20000000, "TDD", -320>>,
    <<28000, 20000000, "FDD", 20>>,
    <<28000, 5000000, "TDD", 20>>,
    <<28000, 5000000, "FDD", -320>>,
    <<3500, 20000000, "TDD", 0>> }

\* ------------------------------------------------- ThroughputMonitor
\* rxBytes * 8.0 / (timeLastRxPacket - timeFirstTxPacket) / 1000
FlowThroughput(f) ==
  DDiv(DDiv(DMul(ToDbl(f.rxBytes), ToDbl(8)),
            DSub(f.timeLastRxPacket, f.timeFirstTxPacket)),
       ToDbl(1000))

\* delaySum / rxPackets
FlowLatency(f) == DDiv(f.delaySum, ToDbl(f.rxPackets))

\* Mutant: gLatency + latency / 2.0, the parentheses forgotten.
UpdateLatencyPrecedence(lat, latency) == DAdd(lat, DDiv(latency, ToDbl(2)))

\* Mutant: gLatency = latency, the average forgotten.
UpdateLatencyAssign(lat, latency) == latency

\* gLatency = (gLatency + latency) / 2.0
UpdateLatency(lat, latency) == DDiv(DAdd(lat, latency), ToDbl(2))

\* Mutant: the latency update beside the rxBytes test, not inside it.
LoopBodyUnnested(st, i, acc) ==
  LET a1 == IF st[i].rxBytes > 0
            THEN [acc EXCEPT
                    !.totalThroughput = DAdd(@, FlowThroughput(st[i])),
                    !.divByZero = @ \/ (st[i].timeLastRxPacket = st[i].timeFirstTxPacket)]
            ELSE acc
  IN  IF st[i].rxPackets > 0
      THEN [a1 EXCEPT !.gLatency = UpdateLatency(@, FlowLatency(st[i])),
                      !.updated = Append(@, i)]
      ELSE a1

\* The body of the loop for flow i of st; acc holds the locals and gLatency.
LoopBody(st, i, acc) ==
  IF st[i].rxBytes > 0
  THEN LET throughput == FlowThroughput(st[i])
           a1 == [acc EXCEPT
                    !.totalThroughput = DAdd(@, throughput),
                    !.divByZero = @ \/ (st[i].timeLastRxPacket = st[i].timeFirstTxPacket)]
       IN  IF st[i].rxPackets > 0
           THEN LET latency == FlowLatency(st[i])
                IN  [a1 EXCEPT !.gLatency = UpdateLatency(@, latency),
                               !.updated = Append(@, i)]
           ELSE a1
  ELSE acc

\* for (i = stats.begin (); i != stats.end (); ++i)
RECURSIVE MonitorLoop(_, _, _)
MonitorLoop(st, i, acc) ==
  IF i > Len(st) THEN acc ELSE MonitorLoop(st, i + 1, LoopBody(st, i, acc))

\* The locals, gLatency and the history after the loop over snapshot st.
AfterLoop(st, lat) ==
  MonitorLoop(st, 1, [totalThroughput |-> Zero, gLatency |-> lat,
                      updated |-> <<>>, divByZero |-> FALSE])

\* Mutant: gThroughput += totalThroughput * 1000.
StoreThroughputAccumulate(old, totalThroughput) ==
  DAdd(old, DMul(totalThroughput, ToDbl(1000)))

\* gThroughput = totalThroughput * 1000, whatever gThroughput held (old).
StoreThroughput(old, totalThroughput) == DMul(totalThroughput, ToDbl(1000))

\* One call of ThroughputMonitor: the monitor hands over a snapshot st.
\* (r is bound with \E so that the loop is evaluated once.)
ThroughputMonitor(st) ==
  \E r \in {AfterLoop(st, gLatency)} :
      /\ stats' = st
      /\ gThroughput' = StoreThroughput(gThroughput, r.totalThroughput)
      /\ gLatency' = r.gLatency
      /\ latBefore' = gLatency
      /\ thrBefore' = gThroughput
      /\ updated' = r.updated
      /\ latHist' = latHist \o [k \in 1..Len(r.updated) |-> FlowLatency(st[r.updated[k]])]
      /\ divByZero' = r.divByZero

\* ------------------------------------------------ fallback estimate
\* double snr = 10 + (gTxPower - 20) / 2
snr == DAdd(ToDbl(10), DDiv(ToDbl(gTxPower - 20), ToDbl(2)))

RECURSIVE Pow10(_)
Pow10(k) == IF k = 0 THEN 1 ELSE 10 * Pow10(k - 1)

\* 1 + pow(10, e) for an integer e.  For e <= -16 the power is below 2^-53,
\* half the spacing of the doubles at 1, and the double sum is exactly 1.0.
OnePlusPow10(e) ==
  IF e.n <= -16 * e.d THEN ToDbl(1)
  ELSE IF e.n >= 0 THEN ToDbl(1 + Pow10(e.n))
  ELSE Dbl(Pow10(-e.n) + 1, Pow10(-e.n))

\* floor(log2(n / d)) for n / d >= 1
RECURSIVE IntLog2(_, _)
IntLog2(n, d) == IF n >= 2 * d THEN 1 + IntLog2(n, 2 * d) ELSE 0

\* The next j binary digits of log2(X / 2^14), X / 2^14 in [1, 2), after
\* the digits bits: square, and halve when the square reaches 2.
RECURSIVE Log2Digits(_, _, _)
Log2Digits(X, j, bits) ==
  IF j = 0 THEN bits
  ELSE LET sq == (X * X) \div 16384
       IN  IF sq >= 32768 THEN Log2Digits(sq \div 2, j - 1, 2 * bits + 1)
           ELSE Log2Digits(sq, j - 1, 2 * bits)

RECURSIVE Pow2(_)
Pow2(k) == IF k = 0 THEN 1 ELSE 2 * Pow2(k - 1)

\* log2(x) for a finite x >= 1, cut to 10 binary digits after the point:
\* exact at the powers of two (log2(1) = 0), and otherwise at most 2^-9
\* below the real logarithm.
Log2(x) ==
  LET e == IntLog2(x.n, x.d)
      X == (x.n * 16384) \div (x.d * Pow2(e))
  IN  Dbl(e * 1024 + Log2Digits(X, 10, 0), 1024)

\* double spectralEfficiency = log2(1 + pow(10, snr/10))
spectralEfficiency == Log2(OnePlusPow10(DDiv(snr, ToDbl(10))))

\* double duplexEfficiency = (gDuplexMode == "TDD") ? 0.8 : 0.95
duplexEfficiency == IF gDuplexMode = "TDD" THEN Dbl(8, 10) ELSE Dbl(95, 100)

\* double mimoFactor = (gFrequency < 6e9) ? 4 : 8   (gFrequency in MHz)
mimoFactor == IF gFrequency < 6000 THEN ToDbl(4) ELSE ToDbl(8)

\* double overheadFactor = 0.85
overheadFactor == Dbl(85, 100)

\* gBandwidth * spectralEfficiency * duplexEfficiency * mimoFactor * overheadFactor
FallbackThroughput ==
  DMul(DMul(DMul(DMul(ToDbl(gBandwidth), spectralEfficiency), duplexEfficiency),
            mimoFactor),
       overheadFactor)

\* Mutant: gLatency += 0.001 + ..., the estimate added to the old value.
FallbackLatencyAdded ==
  DAdd(gLatency,
       DAdd(DAdd(Dbl(1, 1000), IF gDuplexMode = "TDD" THEN Dbl(5, 10000) ELSE Zero),
            DMul(DDiv(ToDbl(100000000), ToDbl(gBandwidth)), Dbl(5, 10000))))

\* 0.001 + (gDuplexMode == "TDD" ? 0.0005 : 0) + (100e6/gBandwidth)*0.0005
FallbackLatency ==
  DAdd(DAdd(Dbl(1, 1000), IF gDuplexMode = "TDD" THEN Dbl(5, 10000) ELSE Zero),
       DMul(DDiv(ToDbl(100000000), ToDbl(gBandwidth)), Dbl(5, 10000)))

\* Mutant: if (gThroughput < 0).
FallbackNeededStrict(throughput) == throughput.n < 0

\* if (gThroughput <= 0)
FallbackNeeded(throughput) == DLeZero(throughput)

\* Mutant: the estimate computed without the test of gThroughput.
EstimateAlways(m) == [throughput |-> FallbackThroughput, latency |-> FallbackLatency]

\* The metrics after the fallback step, from the metrics m before it.
EstimateIfNeeded(m) ==
  IF FallbackNeeded(m.throughput)
  THEN [throughput |-> FallbackThroughput, latency |-> FallbackLatency]
  ELSE m

\* -------------------------------------------------------------- main
Init ==
  /\ \E c \in Configurations :
       /\ gFrequency = c[1]
       /\ gBandwidth = c[2]
       /\ gDuplexMode = c[3]
       /\ gTxPower = c[4]
  /\ gThroughput = Zero
  /\ gLatency = Zero
  /\ stats = <<>>
  /\ pc = "run"
  /\ written = <<>>
  /\ events = <<>>
  /\ latBefore = Zero
  /\ thrBefore = Zero
  /\ latHist = <<>>
  /\ updated = <<>>
  /\ divByZero = FALSE
  /\ aggThroughput = Zero
  /\ aggLatency = Zero

\* Simulator::Run reaches the event scheduled for second 1.
ScheduledMonitor ==
  /\ pc = "run"
  /\ \E st \in Snapshots : ThroughputMonitor(st)
  /\ pc' = "monitored"
  /\ events' = Append(events, "monitor_run")
  /\ UNCHANGED <<config, written, aggThroughput, aggLatency>>

\* Mutant: main goes on to the fallback without its own ThroughputMonitor call.
SimulatorStopSkipsFinal ==
  /\ pc = "monitored"
  /\ pc' = "aggregated"
  /\ UNCHANGED <<config, gThroughput, gLatency, stats, written, events, latBefore,
                 thrBefore, latHist, updated, divByZero, aggThroughput, aggLatency>>

\* Simulator::Run returns at simTime = 2 s, after the event of second 1.
SimulatorStop ==
  /\ pc = "monitored"
  /\ pc' = "stopped"
  /\ UNCHANGED <<config, gThroughput, gLatency, stats, written, events, latBefore,
                 thrBefore, latHist, updated, divByZero, aggThroughput, aggLatency>>

\* main's own call of ThroughputMonitor after the run.
FinalMonitor ==
  /\ pc = "stopped"
  /\ \E st \in Snapshots : ThroughputMonitor(st)
  /\ aggThroughput' = gThroughput'
  /\ aggLatency' = gLatency'
  /\ pc' = "aggregated"
  /\ events' = Append(events, "monitor_final")
  /\ UNCHANGED <<config, written>>

\* The fallback calculation of main.
Fallback ==
  /\ pc = "aggregated"
  /\ \E m \in {EstimateIfNeeded([throughput |-> gThroughput, latency |-> gLatency])} :
       /\ gThroughput' = m.throughput
       /\ gLatency' = m.latency
  /\ pc' = "estimated"
  /\ events' = Append(events, "estimate")
  /\ UNCHANGED <<config, stats, written, latBefore, thrBefore, latHist, updated,
                 divByZero, aggThroughput, aggLatency>>

\* WriteResultsToJson(gThroughput, gLatency, gOutputPath)
WriteResultsToJson ==
  /\ pc = "estimated"
  /\ written' = <<[frequency |-> gFrequency, bandwidth |-> gBandwidth,
                   duplexMode |-> gDuplexMode, transmitPower |-> gTxPower,
                   results |-> [throughput |-> gThroughput, latency |-> gLatency]]>>
  /\ pc' = "written"
  /\ events' = Append(events, "write")
  /\ UNCHANGED <<config, gThroughput, gLatency, stats, latBefore, thrBefore, latHist,
                 updated, divByZero, aggThroughput, aggLatency>>

Next ==
  \/ ScheduledMonitor
  \/ SimulatorStop
  \/ FinalMonitor
  \/ Fallback
  \/ WriteResultsToJson

Spec == Init /\ [][Next]_vars

\* ------------------------------------------------------- properties
\* A ThroughputMonitor call has just returned: stats is the snapshot it read
\* and gThroughput, gLatency are as it left them.
AfterCall == pc \in {"monitored", "stopped", "aggregated"}

\* timeLastRxPacket - timeFirstTxPacket
Elapsed(f) == DSub(f.timeLastRxPacket, f.timeFirstTxPacket)

IsPositive(a) == a.n > 0

\* The flows of st, in key order, that satisfy Q.
RECURSIVE FlowsWhere(_, _, _)
FlowsWhere(st, Q(_), i) ==
  IF i > Len(st) THEN <<>>
  ELSE (IF Q(st[i]) THEN <<i>> ELSE <<>>) \o FlowsWhere(st, Q, i + 1)

HasBytes(f) == f.rxBytes > 0
HasPackets(f) == f.rxPackets > 0
HasBytesAndPackets(f) == f.rxBytes > 0 /\ f.rxPackets > 0

\* rxBytes*8/dt/1000 as one quotient; a zero dt gives +infinity.
Contribution(f) == Dbl(f.rxBytes * 8 * Elapsed(f).d, Elapsed(f).n * 1000)

\* The contribution of f when a record with dt <= 0 is an excluded sample.
GuardedContribution(f) == IF IsPositive(Elapsed(f)) THEN Contribution(f) ELSE Zero

\* The sum of C(st[i]) over the flows i <= k of st with rxBytes > 0, last first.
RECURSIVE SumWithBytes(_, _, _)
SumWithBytes(st, C(_), k) ==
  IF k = 0 THEN Zero
  ELSE DAdd(IF st[k].rxBytes > 0 THEN C(st[k]) ELSE Zero, SumWithBytes(st, C, k - 1))

\* C1: after every call of ThroughputMonitor, a record with rxBytes > 0 and an
\* elapsed time <= 0 has added nothing to the throughput, and the call divided by
\* no zero.
C1_ZeroElapsedAddsNothing ==
  AfterCall =>
    /\ ~divByZero
    /\ gThroughput = DMul(SumWithBytes(stats, GuardedContribution, Len(stats)), ToDbl(1000))

\* C2 as stated: a call of ThroughputMonitor updates gLatency once for every
\* record with rxPackets > 0, whatever its rxBytes, and for no other record.
C2_UpdatedForEveryFlowWithPackets ==
  AfterCall => updated = FlowsWhere(stats, HasPackets, 1)

\* C2 as amended: a call of ThroughputMonitor updates gLatency once for every
\* record with rxBytes > 0 and rxPackets > 0, and for no other record.
C2_UpdatedForFlowsWithBytesAndPackets ==
  AfterCall => updated = FlowsWhere(stats, HasBytesAndPackets, 1)

\* A call has read a record with packets and no bytes beside one with both.
C2_Witness ==
  /\ AfterCall
  /\ \E i, j \in 1..Len(stats) :
       /\ stats[i].rxPackets > 0 /\ stats[i].rxBytes = 0
       /\ stats[j].rxPackets > 0 /\ stats[j].rxBytes > 0
  /\ updated # <<>>

\* (L + x) / 2 as one quotient, for finite L and x.
HalfSum(L, x) == Dbl(L.n * x.d + x.n * L.d, 2 * L.d * x.d)

\* The left fold of L -> (L + x)/2 over the latencies q.
RECURSIVE FoldHalf(_, _)
FoldHalf(L, q) == IF q = <<>> THEN L ELSE FoldHalf(HalfSum(L, Head(q)), Tail(q))

\* delaySum / rxPackets of the flows that qualify for a latency update, in order.
QualifyingLatencies(st) ==
  LET ids == FlowsWhere(st, HasBytesAndPackets, 1)
  IN  [k \in 1..Len(ids) |->
         Dbl(st[ids[k]].delaySum.n, st[ids[k]].delaySum.d * st[ids[k]].rxPackets)]

C4_ThroughputRecomputed ==
  AfterCall =>
    /\ gThroughput = DMul(SumWithBytes(stats, Contribution, Len(stats)), ToDbl(1000))
    /\ (\A i \in 1..Len(stats) : stats[i].rxBytes = 0) => gThroughput = Zero

\* The final call read records without bytes after an earlier call had produced a
\* positive throughput.
C4_Witness ==
  /\ pc = "aggregated"
  /\ IsPositive(thrBefore)
  /\ Len(stats) > 0
  /\ \A i \in 1..Len(stats) : stats[i].rxBytes = 0
  /\ gThroughput = Zero

\* The metrics main holds.
metrics == [throughput |-> gThroughput, latency |-> gLatency]

\* C5: the fallback replaces the metrics exactly when the final gThroughput is
\* <= 0, and then both by the formula values (for the default configuration
\* 0.004 s and about 188.1e6 bit/s); otherwise the writer is handed the
\* aggregator's final throughput and latency unchanged.
C5_FallbackExactlyWhenNonPositive ==
  pc = "written" =>
    LET r == written[1].results
    IN  /\ DLeZero(aggThroughput) =>
             /\ r = [throughput |-> FallbackThroughput, latency |-> FallbackLatency]
             /\ (gFrequency = 3500 /\ gBandwidth = 20000000 /\ gDuplexMode = "TDD"
                   /\ gTxPower = 20) =>
                  /\ r.latency = Dbl(4, 1000)
                  /\ r.throughput.d = 1
                  /\ r.throughput.n \in 188000000..188200000
        /\ ~DLeZero(aggThroughput) =>
             r = [throughput |-> aggThroughput, latency |-> aggLatency]

\* The final call left a zero throughput and a nonzero latency, and the writer
\* was handed the estimate for both.
C5_Witness ==
  /\ pc = "written"
  /\ DLeZero(aggThroughput)
  /\ aggLatency # Zero
  /\ written[1].results.latency # aggLatency
  /\ IsPositive(written[1].results.throughput)

\* The fallback has run on a non-positive final throughput.
FallbackRan == pc \in {"estimated", "written"} /\ DLeZero(aggThroughput)

\* C6 as stated: the throughput the fallback produces is > 0 for every
\* configuration, so applied to its own output it returns that output unchanged.
C6_EstimateAlwaysPositive ==
  FallbackRan => IsPositive(gThroughput) /\ EstimateIfNeeded(metrics) = metrics

\* C6 as amended: applied to its own output the fallback returns that output
\* unchanged; the throughput it produces is >= 0, > 0 for a transmit power >= 0 dBm
\* and exactly 0 for a transmit power <= -320 dBm.
C6_EstimateIdempotent ==
  FallbackRan =>
    /\ EstimateIfNeeded(metrics) = metrics
    /\ IsFinite(gThroughput) /\ gThroughput.n >= 0
    /\ gTxPower >= 0 => IsPositive(gThroughput)
    /\ gTxPower <= -320 => gThroughput = Zero

\* The fallback has produced a zero throughput, so that a second application
\* computes the estimate again.
C6_Witness ==
  /\ FallbackRan
  /\ gThroughput = Zero
  /\ FallbackNeeded(gThroughput)
  /\ gLatency = FallbackLatency

\* The calls after the first i of the sequence e.
Rest(e, i) == SubSeq(e, i + 1, Len(e))

\* C7: the calls of a run are zero or more ThroughputMonitor calls during the
\* simulation, then one ThroughputMonitor call after it, then one evaluation of
\* the fallback, then one call of the writer; no ThroughputMonitor call follows
\* the fallback.
C7_CallOrder ==
  \E k \in 0..Len(events) :
    /\ \A i \in 1..k : events[i] = "monitor_run"
    /\ \E j \in 0..3 : Rest(events, k) = SubSeq(<<"monitor_final", "estimate", "write">>, 1, j)
    /\ pc = "aggregated" => Rest(events, k) = <<"monitor_final">>
    /\ pc = "estimated" => Rest(events, k) = <<"monitor_final", "estimate">>
    /\ pc = "written" => Rest(events, k) = <<"monitor_final", "estimate", "write">>

\* A run has written its results.
C7_Witness ==
  /\ pc = "written"
  /\ events = <<"monitor_run", "monitor_final", "estimate", "write">>

\* No record read so far has delivered a packet.
NothingDelivered == latHist = <<>> /\ \A i \in 1..Len(stats) : stats[i].rxBytes = 0

\* C8: after any sequence of ThroughputMonitor calls on valid flow data, started
\* from zero metrics, gThroughput and gLatency are finite and non-negative, and
\* zero if no flow has delivered a packet.
C8_MetricsFiniteNonNegative ==
  (pc \in {"run", "monitored", "stopped", "aggregated"}) =>
    /\ IsFinite(gThroughput) /\ gThroughput.n >= 0
    /\ IsFinite(gLatency) /\ gLatency.n >= 0
    /\ NothingDelivered => gThroughput = Zero /\ gLatency = Zero

AfterFinal == pc \in {"aggregated", "estimated", "written"}

DLeq(a, b) == a.n * b.d <= b.n * a.d

\* Every latency that updated gLatency is the same x > 0.
ConstantLatency ==
  /\ latHist # <<>>
  /\ IsPositive(latHist[1])
  /\ \A i \in 1..Len(latHist) : latHist[i] = latHist[1]

====
